---- MODULE Spec2Model ----
(***************************************************************************)
(* goCache: an in-process key/value cache with per-entry expiration, a     *)
(* single RWMutex (only ever taken exclusively) and a janitor goroutine.   *)
(*                                                                         *)
(* Granularity.  A thread's step is either                                 *)
(*   - the work an operation does before c.mu.Lock() (Set and              *)
(*     DeleteExpired read the clock there),                                *)
(*   - one critical section: Lock, the body, and the Unlock the taken path *)
(*     executes (a path that returns without Unlock leaves mu held), or    *)
(*   - one invocation of the eviction callback after the Unlock.           *)
(* A Lock on a held mutex blocks: the critical-section actions are guarded *)
(* by mu = Free.  The clock reads inside one critical section are taken at *)
(* the same instant.                                                       *)
(***************************************************************************)
EXTENDS Integers, Sequences, FiniteSets, TLC

\* ---------------------------------------------------------------- bounds
MaxTime == 3          \* the clock runs over 1..MaxTime
IntBits == 1          \* width of the modelled Go int (two's complement)

\* ------------------------------------------------------- program constants
NoExpiration == -1
DefaultExpiration == 0

\* ------------------------------------------------------------ input sets
Keys == {"foo", "num"}
Callers == {"c1"}
Jan == "jan"
Adders == {"c1", "c2", "c3"}       \* callers racing on one Add
Threads == Callers \cup Adders \cup {Jan}
Free == "free"

IntMin == -(2 ^ (IntBits - 1))
IntMax == 2 ^ (IntBits - 1) - 1
Ints == IntMin..IntMax

\* interface{} values: a string (n is its index), an int, or nil
Str(i) == [kind |-> "string", n |-> i]
IntObj(i) == [kind |-> "int", n |-> i]
Nil == [kind |-> "nil", n |-> 0]
Objects == {Str(0), IntObj(0)}      \* what callers store
Durations == {NoExpiration, DefaultExpiration, 1}
DefaultDurations == {NoExpiration, 0, 2}       \* New's defaultExpiration
Deltas == {-1, 0, 1}                           \* Increment's n

VARIABLES
    now,                \* time.Now().UnixNano()
    defaultExpiration,  \* cache.defaultExpiration
    items,              \* cache.items: a map, a function on the stored keys
    mu,                 \* cache.mu: Free or the thread holding it
    onEvicted,          \* whether cache.onEvicted is non-nil
    janitor,            \* the janitor goroutine, its stop channel and the
                        \* goroutine that sends the stop signal
    pc,                 \* each thread's position
    loc,                \* each thread's locals between steps
    ret,                \* what each thread's last operation returned (NoRet
                        \* while an operation is in progress)
    calls               \* the onEvicted invocations made by each thread's
                        \* current or last operation, in order

vars == <<now, defaultExpiration, items, mu, onEvicted, janitor, pc, loc, ret, calls>>

\* ------------------------------------------------------------------ Item
Item(x, e) == [Object |-> x, Expiration |-> e]

\* Expired that never reports an expiration
Expired_Never(item, t) == FALSE

Expired(item, t) ==
    IF item.Expiration = 0 THEN FALSE ELSE t > item.Expiration

\* Go's int addition: wraps at the width of int
WrapInt(i) == ((i - IntMin) % (2 ^ IntBits)) + IntMin

\* ----------------------------------------------------- map primitives
Put(m, k, it) == [x \in DOMAIN m \cup {k} |-> IF x = k THEN it ELSE m[x]]
Remove(m, k) == [x \in DOMAIN m \ {k} |-> m[x]]

\* expiration without the DefaultExpiration lookup
expiration_NoDefault(d, t) == IF d > 0 THEN t + d ELSE 0

\* the expiration set/Set store for duration d read at clock t
expiration(d, t) ==
    LET d1 == IF d = DefaultExpiration THEN defaultExpiration ELSE d
    IN  IF d1 > 0 THEN t + d1 ELSE 0

set(m, k, x, d, t) == Put(m, k, Item(x, expiration(d, t)))

\* get without the expiration check
get_NoExpiryCheck(m, k, t) ==
    IF k \notin DOMAIN m THEN [Object |-> Nil, found |-> FALSE]
    ELSE [Object |-> m[k].Object, found |-> TRUE]

get(m, k, t) ==
    IF k \notin DOMAIN m THEN [Object |-> Nil, found |-> FALSE]
    ELSE IF m[k].Expiration > 0 /\ m[k].Expiration < t
         THEN [Object |-> Nil, found |-> FALSE]
         ELSE [Object |-> m[k].Object, found |-> TRUE]

\* delete that reports an eviction for a key that was not stored
delete_AlwaysEvicted(m, k) ==
    [items |-> Remove(m, k),
     Object |-> IF k \in DOMAIN m THEN m[k].Object ELSE Nil,
     evicted |-> onEvicted]

delete(m, k) ==
    IF onEvicted /\ k \in DOMAIN m
    THEN [items |-> Remove(m, k), Object |-> m[k].Object, evicted |-> TRUE]
    ELSE [items |-> Remove(m, k), Object |-> Nil, evicted |-> FALSE]

newCache(de) == IF de = 0 THEN -1 ELSE de

\* ------------------------------------------------------ thread plumbing
NoLoc == [k |-> "", x |-> Nil, d |-> 0, e |-> 0, ev |-> <<>>]
NoRet == [op |-> "none", k |-> "", err |-> "nil", v |-> Nil]
Ret(op, k, err, v) == [op |-> op, k |-> k, err |-> err, v |-> v]

\* t's operation returns r, having invoked onEvicted with cs
Return(t, r, cs) ==
    /\ pc' = [pc EXCEPT ![t] = "idle"]
    /\ loc' = [loc EXCEPT ![t] = NoLoc]
    /\ ret' = [ret EXCEPT ![t] = r]
    /\ calls' = [calls EXCEPT ![t] = cs]

\* t's operation goes on at position p with locals l
Goto(t, p, l, cs) ==
    /\ pc' = [pc EXCEPT ![t] = p]
    /\ loc' = [loc EXCEPT ![t] = l]
    /\ ret' = [ret EXCEPT ![t] = NoRet]
    /\ calls' = [calls EXCEPT ![t] = cs]

\* Interval: the cleanupInterval New was given (janitor.Interval)
\* state:    "none" (no goroutine), "spawned" (go j.Run(c) issued, Run not
\*           yet executing), "running" (in Run's loop: at the select when
\*           pc[Jan] is "idle", else inside c.DeleteExpired()), "stopped"
\* stop:     the field janitor.stop: "nil" or "chan" (a channel made by Run)
\* sender:   the goroutine running stopJanitor: "none" (not called), "nil" or
\*           "chan" (blocked in the send on that value of janitor.stop),
\*           "done" (the send completed)
NoJanitor(ci) == [Interval |-> ci, state |-> "none", stop |-> "nil", sender |-> "none"]

\* runJanitor: j := &janitor{Interval: ci}; c.janitor = j; go j.Run(c)
runJanitor(ci) == [Interval |-> ci, state |-> "spawned", stop |-> "nil", sender |-> "none"]

New(de, ci) ==
    /\ now = 1
    /\ defaultExpiration = newCache(de)
    /\ items = << >>
    /\ mu = Free
    /\ janitor = IF ci > 0 THEN runJanitor(ci) ELSE NoJanitor(ci)
    /\ pc = [t \in Threads |-> "idle"]
    /\ loc = [t \in Threads |-> NoLoc]
    /\ ret = [t \in Threads |-> NoRet]
    /\ calls = [t \in Threads |-> <<>>]

\* The constructor leaves cache.onEvicted nil; code of the package may set the
\* field before the cache is used, so both cases start a behaviour.
Init ==
    /\ onEvicted \in BOOLEAN
    /\ \E de \in DefaultDurations : New(de, 0)

\* ------------------------------------------------------------ the clock
Tick ==
    /\ now < MaxTime
    /\ now' = now + 1
    /\ UNCHANGED <<defaultExpiration, items, mu, onEvicted, janitor, pc, loc, ret, calls>>

\* ------------------------------------------------------------------ Set
SetCall(t, k, x, d) ==
    /\ pc[t] = "idle"
    /\ Goto(t, "Set", [NoLoc EXCEPT !.k = k, !.x = x, !.d = d, !.e = expiration(d, now)], <<>>)
    /\ UNCHANGED <<now, defaultExpiration, items, mu, onEvicted, janitor>>

Set(t) ==
    /\ pc[t] = "Set"
    /\ mu = Free
    /\ items' = Put(items, loc[t].k, Item(loc[t].x, loc[t].e))
    /\ Return(t, Ret("Set", loc[t].k, "nil", Nil), <<>>)
    /\ UNCHANGED <<now, defaultExpiration, mu, onEvicted, janitor>>

\* ------------------------------------------------------------------ Add
\* Add's critical section on the map m at clock t.  The found path returns
\* without c.mu.Unlock(): unlocked is FALSE there.
AddBody(m, k, x, d, t) ==
    IF get(m, k, t).found
    THEN [items |-> m, err |-> "KeyExists", unlocked |-> FALSE]
    ELSE [items |-> set(m, k, x, d, t), err |-> "nil", unlocked |-> TRUE]

Add(t, k, x, d) ==
    /\ pc[t] = "idle"
    /\ mu = Free
    /\ LET r == AddBody(items, k, x, d, now)
       IN  /\ mu' = IF r.unlocked THEN Free ELSE t
           /\ items' = r.items
           /\ Return(t, Ret("Add", k, r.err, Nil), <<>>)
    /\ UNCHANGED <<now, defaultExpiration, onEvicted, janitor>>

\* -------------------------------------------------------------- Replace
ReplaceBody(m, k, x, d, t) ==
    IF ~get(m, k, t).found
    THEN [items |-> m, err |-> "KeyNotFound", unlocked |-> TRUE]
    ELSE [items |-> set(m, k, x, d, t), err |-> "nil", unlocked |-> TRUE]

Replace(t, k, x, d) ==
    /\ pc[t] = "idle"
    /\ mu = Free
    /\ LET r == ReplaceBody(items, k, x, d, now)
       IN  /\ mu' = IF r.unlocked THEN Free ELSE t
           /\ items' = r.items
           /\ Return(t, Ret("Replace", k, r.err, Nil), <<>>)
    /\ UNCHANGED <<now, defaultExpiration, onEvicted, janitor>>

\* ------------------------------------------------------------ Increment
\* Increment that stores a fresh Item and so drops the expiration
IncrementBody_DropsExpiration(m, k, n, t) ==
    IF k \notin DOMAIN m \/ Expired(m[k], t)
    THEN [items |-> m, err |-> "KeyNotFound", unlocked |-> TRUE]
    ELSE IF m[k].Object.kind = "int"
         THEN [items |-> Put(m, k, Item(IntObj(WrapInt(m[k].Object.n + n)), 0)),
               err |-> "nil", unlocked |-> TRUE]
         ELSE [items |-> m, err |-> "UnsupportedType", unlocked |-> TRUE]

IncrementBody(m, k, n, t) ==
    IF k \notin DOMAIN m \/ Expired(m[k], t)
    THEN [items |-> m, err |-> "KeyNotFound", unlocked |-> TRUE]
    ELSE IF m[k].Object.kind = "int"
         THEN [items |-> Put(m, k, [m[k] EXCEPT !.Object = IntObj(WrapInt(m[k].Object.n + n))]),
               err |-> "nil", unlocked |-> TRUE]
         ELSE [items |-> m, err |-> "UnsupportedType", unlocked |-> TRUE]

Increment(t, k, n) ==
    /\ pc[t] = "idle"
    /\ mu = Free
    /\ LET r == IncrementBody(items, k, n, now)
       IN  /\ mu' = IF r.unlocked THEN Free ELSE t
           /\ items' = r.items
           /\ Return(t, Ret("Increment", k, r.err, Nil), <<>>)
    /\ UNCHANGED <<now, defaultExpiration, onEvicted, janitor>>

\* ------------------------------------------------------------------ Get
\* Get that treats the expiration instant itself as expired
GetBody_ExpiredAtDeadline(m, k, t) ==
    IF k \notin DOMAIN m
    THEN [Object |-> Nil, found |-> FALSE]
    ELSE IF m[k].Expiration <= t
         THEN [Object |-> Nil, found |-> FALSE]
         ELSE [Object |-> m[k].Object, found |-> TRUE]

\* what Get's critical section computes from the map m at clock t
GetBody(m, k, t) ==
    IF k \notin DOMAIN m
    THEN [Object |-> Nil, found |-> FALSE]
    ELSE IF m[k].Expiration < t
         THEN [Object |-> Nil, found |-> FALSE]
         ELSE [Object |-> m[k].Object, found |-> TRUE]

Get(t, k) ==
    /\ pc[t] = "idle"
    /\ mu = Free
    /\ LET r == GetBody(items, k, now)
       IN  Return(t, Ret("Get", k, IF r.found THEN "found" ELSE "notfound", r.Object), <<>>)
    /\ UNCHANGED <<now, defaultExpiration, items, mu, onEvicted, janitor>>

\* --------------------------------------------------------------- Delete
Delete(t, k) ==
    /\ pc[t] = "idle"
    /\ mu = Free
    /\ LET r == delete(items, k)
       IN  /\ items' = r.items
           /\ IF r.evicted
              THEN Goto(t, "Delete_cb", [NoLoc EXCEPT !.k = k, !.x = r.Object], <<>>)
              ELSE Return(t, Ret("Delete", k, "nil", Nil), <<>>)
    /\ UNCHANGED <<now, defaultExpiration, mu, onEvicted, janitor>>

\* c.onEvicted(k, v), after the Unlock
DeleteCallback(t) ==
    /\ pc[t] = "Delete_cb"
    /\ Return(t, Ret("Delete", loc[t].k, "nil", Nil),
              Append(calls[t], [key |-> loc[t].k, value |-> loc[t].x]))
    /\ UNCHANGED <<now, defaultExpiration, items, mu, onEvicted, janitor>>

\* -------------------------------------------------------- DeleteExpired
\* every ordering of the keys in S: the order a map range may visit them in
RECURSIVE Orders(_)
Orders(S) ==
    IF S = {} THEN {<<>>}
    ELSE UNION {{<<k>> \o o : o \in Orders(S \ {k})} : k \in S}

\* a sweep that removes an entry at its expiration instant already
SweepKeys_AtDeadline(m, timeNow) ==
    {k \in DOMAIN m : m[k].Expiration > 0 /\ m[k].Expiration <= timeNow}

\* a sweep that takes a zero expiration for a deadline
SweepKeys_NoPositiveGuard(m, timeNow) ==
    {k \in DOMAIN m : m[k].Expiration < timeNow}

\* the keys the sweep's loop deletes from m for the snapshot timeNow
SweepKeys(m, timeNow) ==
    {k \in DOMAIN m : m[k].Expiration > 0 /\ m[k].Expiration < timeNow}

DeleteExpiredCall(t) ==
    /\ pc[t] = "idle"
    /\ Goto(t, "DeleteExpired", [NoLoc EXCEPT !.e = now], <<>>)
    /\ UNCHANGED <<now, defaultExpiration, items, mu, onEvicted, janitor>>

DeleteExpired(t) ==
    /\ pc[t] = "DeleteExpired"
    /\ mu = Free
    /\ LET gone == SweepKeys(items, loc[t].e)
       IN  /\ items' = [k \in DOMAIN items \ gone |-> items[k]]
           /\ \E o \in Orders({k \in gone : delete(items, k).evicted}) :
                LET evictedItems == [i \in 1..Len(o) |->
                                       [key |-> o[i], value |-> delete(items, o[i]).Object]]
                IN  IF evictedItems = <<>>
                    THEN Return(t, Ret("DeleteExpired", "", "nil", Nil), <<>>)
                    ELSE Goto(t, "DeleteExpired_cb", [NoLoc EXCEPT !.ev = evictedItems], <<>>)
    /\ UNCHANGED <<now, defaultExpiration, mu, onEvicted, janitor>>

\* one c.onEvicted(v.key, v.value) of the loop after the Unlock
DeleteExpiredCallback(t) ==
    /\ pc[t] = "DeleteExpired_cb"
    /\ IF Tail(loc[t].ev) = <<>>
       THEN Return(t, Ret("DeleteExpired", "", "nil", Nil), Append(calls[t], Head(loc[t].ev)))
       ELSE Goto(t, "DeleteExpired_cb", [loc[t] EXCEPT !.ev = Tail(@)],
                 Append(calls[t], Head(loc[t].ev)))
    /\ UNCHANGED <<now, defaultExpiration, items, mu, onEvicted, janitor>>

\* ------------------------------------------------------------ ItemCount
\* ItemCount that leaves out the entries whose expiration has passed
ItemCount_LiveOnly(t) ==
    /\ pc[t] = "idle"
    /\ mu = Free
    /\ Return(t, Ret("ItemCount", "", "nil",
                     IntObj(Cardinality({k \in DOMAIN items : ~Expired(items[k], now)}))), <<>>)
    /\ UNCHANGED <<now, defaultExpiration, items, mu, onEvicted, janitor>>

ItemCount(t) ==
    /\ pc[t] = "idle"
    /\ mu = Free
    /\ Return(t, Ret("ItemCount", "", "nil", IntObj(Cardinality(DOMAIN items))), <<>>)
    /\ UNCHANGED <<now, defaultExpiration, items, mu, onEvicted, janitor>>

\* ---------------------------------------------------------------- Flush
\* Flush returns nothing; ret.v records how many entries it dropped.
\* Flush that reports every dropped entry to onEvicted
Flush_Evicts(t) ==
    /\ pc[t] = "idle"
    /\ mu = Free
    /\ items' = << >>
    /\ \E o \in Orders(IF onEvicted THEN DOMAIN items ELSE {}) :
          Return(t, Ret("Flush", "", "nil", IntObj(Cardinality(DOMAIN items))),
                 [i \in 1..Len(o) |-> [key |-> o[i], value |-> items[o[i]].Object]])
    /\ UNCHANGED <<now, defaultExpiration, mu, onEvicted, janitor>>

Flush(t) ==
    /\ pc[t] = "idle"
    /\ mu = Free
    /\ items' = << >>
    /\ Return(t, Ret("Flush", "", "nil", IntObj(Cardinality(DOMAIN items))), <<>>)
    /\ UNCHANGED <<now, defaultExpiration, mu, onEvicted, janitor>>

\* ----------------------------------------------------------------- Item
\* cache.Item returns c.items: a Go map value is a reference, so the caller
\* gets the cache's own map, not a copy.  MapRef stands for that reference.
MapRef == [kind |-> "map", n |-> 0]

cache_Item(t) ==
    /\ pc[t] = "idle"
    /\ mu = Free
    /\ Return(t, Ret("Item", "", "nil", MapRef), <<>>)
    /\ UNCHANGED <<now, defaultExpiration, items, mu, onEvicted, janitor>>

\* the caller assigns through the map Item returned, m[k] = Item{Object: x}:
\* a write to c.items that takes no lock
MapWrite(t, k, x) ==
    /\ pc[t] = "idle"
    /\ ret[t].v = MapRef
    /\ items' = Put(items, k, Item(x, 0))
    /\ UNCHANGED <<now, defaultExpiration, mu, onEvicted, janitor, pc, loc, ret, calls>>

\* -------------------------------------------------------------- janitor
\* Run's first statements: j.stop = make(chan bool), then the ticker
Run_make ==
    /\ janitor.state = "spawned"
    /\ janitor' = [janitor EXCEPT !.state = "running", !.stop = "chan"]
    /\ UNCHANGED <<now, defaultExpiration, items, mu, onEvicted, pc, loc, ret, calls>>

\* case <-ticker.C: the goroutine, at the select, calls c.DeleteExpired()
Run ==
    /\ janitor.state = "running"
    /\ DeleteExpiredCall(Jan)

\* case <-j.stop: the goroutine, at the select, receives from the channel a
\* sender is blocked on; the send completes and Run returns
Run_stop ==
    /\ janitor.state = "running"
    /\ pc[Jan] = "idle"
    /\ janitor.sender = "chan"
    /\ janitor' = [janitor EXCEPT !.state = "stopped", !.sender = "done"]
    /\ UNCHANGED <<now, defaultExpiration, items, mu, onEvicted, pc, loc, ret, calls>>

\* stopJanitor, the finalizer of the Cache: it reads c.janitor.stop and sends
\* on what it read.  The channel is unbuffered, so the send blocks until the
\* goroutine receives; a send on a nil channel blocks forever.
stopJanitor ==
    /\ janitor.state # "none"
    /\ janitor.sender = "none"
    /\ janitor' = [janitor EXCEPT !.sender = janitor.stop]
    /\ UNCHANGED <<now, defaultExpiration, items, mu, onEvicted, pc, loc, ret, calls>>

\* the operations of the callers
Op(t) ==
    \/ \E k \in Keys, x \in Objects, d \in Durations : SetCall(t, k, x, d)
    \/ Set(t)
    \/ \E k \in Keys, x \in Objects, d \in Durations : Add(t, k, x, d)
    \/ \E k \in Keys, x \in Objects, d \in Durations : Replace(t, k, x, d)
    \/ \E k \in Keys, n \in Deltas : Increment(t, k, n)
    \/ \E k \in Keys : Get(t, k)
    \/ \E k \in Keys : Delete(t, k)
    \/ DeleteCallback(t)
    \/ DeleteExpiredCall(t)
    \/ DeleteExpired(t)
    \/ DeleteExpiredCallback(t)
    \/ ItemCount(t)
    \/ Flush(t)

Next ==
    \/ Tick
    \/ \E t \in Callers : Op(t)

\* a cache built by New with cleanupInterval <= 0 (no janitor), used by one
\* caller
Spec == Init /\ [][Next]_vars

\* the same cache, whose caller also calls Item and uses the map it returns
NextItem ==
    \/ Next
    \/ \E t \in Callers : cache_Item(t)
    \/ \E t \in Callers, k \in Keys, x \in Objects : MapWrite(t, k, x)

SpecItem == Init /\ [][NextItem]_vars

\* ------------------------------------------- a cache with its janitor
CleanupIntervals == {0, 1}
Written == {Str(0)}         \* what the caller stores while the janitor runs

InitJanitor ==
    /\ onEvicted \in BOOLEAN
    /\ \E de \in DefaultDurations, ci \in CleanupIntervals : New(de, ci)

\* the writes of a caller that go on while the janitor sweeps
Write(t) ==
    \/ \E k \in Keys, x \in Written, d \in Durations : SetCall(t, k, x, d)
    \/ Set(t)
    \/ \E k \in Keys, x \in Written, d \in Durations : Add(t, k, x, d)
    \/ \E k \in Keys, x \in Written, d \in Durations : Replace(t, k, x, d)
    \/ \E k \in Keys : Delete(t, k)
    \/ DeleteCallback(t)

\* the steps of the janitor goroutine
Janitor ==
    \/ Run_make
    \/ Run
    \/ DeleteExpired(Jan)
    \/ DeleteExpiredCallback(Jan)
    \/ Run_stop

NextJanitor ==
    \/ Tick
    \/ \E t \in Callers : Write(t)
    \/ Janitor
    \/ stopJanitor

\* a cache built by New, with its janitor when cleanupInterval > 0, written
\* to by one caller, and finalized at any moment
SpecJanitor == InitJanitor /\ [][NextJanitor]_vars

\* the same, with the janitor goroutine scheduled fairly: it starts, its
\* ticker keeps firing while it waits at the select, and a sweep that can
\* take the lock or has a callback to make goes on
SpecJanitorFair ==
    /\ SpecJanitor
    /\ WF_vars(Run_make)
    /\ WF_vars(Run)
    /\ WF_vars(DeleteExpired(Jan))
    /\ WF_vars(DeleteExpiredCallback(Jan))

\* --------------------------------------------- callers racing on Add
\* t's one call c.Add("foo", x, d), not yet returned: it waits in c.mu.Lock()
\* until it can run its critical section
AddOnce(t) ==
    /\ ret[t].op = "none"
    /\ \E x \in Objects, d \in Durations : Add(t, "foo", x, d)

NextAdd == \E t \in Adders : AddOnce(t)

\* a new cache on which every caller of Adders calls Add("foo", ...) once,
\* all at the same time
SpecAdd == Init /\ [][NextAdd]_vars

\* ================================================================ claims
\* An entry's deadline has not passed at clock t: it never expires, or t has
\* not gone beyond its expiration instant.
Live(it, t) == it.Expiration = 0 \/ t <= it.Expiration
LiveKey(m, k, t) == k \in DOMAIN m /\ Live(m[k], t)

\* every entry of m other than k's is in m2 unchanged, and m2 has no other key
SameExcept(m, m2, k) ==
    /\ DOMAIN m2 \ {k} = DOMAIN m \ {k}
    /\ \A j \in DOMAIN m \ {k} : m2[j] = m[j]

\* C1: every operation releases the storage lock before it returns, on every
\* result path: no thread that is outside an operation holds mu (so a later
\* operation can always take the lock).
C1_LockReleasedOnReturn ==
    \A t \in Threads : pc[t] = "idle" => mu # t

\* C2: Add(k, v, ttl) inserts v under k when k is absent or its entry's
\* expiration has passed, leaving every other entry alone; when k holds a live
\* entry it fails with KeyExists and the whole store is unchanged.  A second
\* Add on the still-live key therefore fails with KeyExists.
C2_AddInsertsOrKeyExists ==
    \A k \in Keys, x \in Objects, d \in Durations :
        LET r == AddBody(items, k, x, d, now)
        IN  IF LiveKey(items, k, now)
            THEN r.err = "KeyExists" /\ r.items = items
            ELSE /\ r.err = "nil"
                 /\ k \in DOMAIN r.items /\ r.items[k].Object = x
                 /\ SameExcept(items, r.items, k)

\* C2 witness: an Add on a key holding a live entry has failed with KeyExists.
C2_Witness ==
    /\ ret["c1"].op = "Add" /\ ret["c1"].err = "KeyExists"
    /\ LiveKey(items, ret["c1"].k, now)

\* C3: Replace(k, v, ttl) succeeds exactly when k holds a live entry; it then
\* stores v under k, leaves the other entries alone, and a Get(k) right after
\* it returns (v, true).  Otherwise it fails with KeyNotFound and the store is
\* unchanged.
C3_ReplaceObservable ==
    \A k \in Keys, x \in Objects, d \in Durations :
        LET r == ReplaceBody(items, k, x, d, now)
        IN  IF LiveKey(items, k, now)
            THEN /\ r.err = "nil"
                 /\ k \in DOMAIN r.items /\ r.items[k].Object = x
                 /\ SameExcept(items, r.items, k)
                 /\ GetBody(r.items, k, now) = [Object |-> x, found |-> TRUE]
            ELSE r.err = "KeyNotFound" /\ r.items = items

\* C4: an entry stored with the NoExpiration sentinel (Expiration = 0) is
\* found by Get, with its value, at every clock value and after any sweeps,
\* for as long as it is stored.
C4_NoExpirationFound ==
    \A k \in DOMAIN items :
        items[k].Expiration = 0 =>
            GetBody(items, k, now) = [Object |-> items[k].Object, found |-> TRUE]

\* C5 as claimed: an entry with a deadline (Expiration = insertTime + ttl > 0)
\* is found by Get with its value at every clock value strictly below the
\* deadline, and not found at every clock value at or beyond it.
C5_ExpiredAtDeadline ==
    \A k \in DOMAIN items :
        items[k].Expiration > 0 =>
            GetBody(items, k, now) =
                IF now < items[k].Expiration
                THEN [Object |-> items[k].Object, found |-> TRUE]
                ELSE [Object |-> Nil, found |-> FALSE]

\* C5 amended: an entry with a deadline is found by Get with its value at
\* every clock value up to and including the deadline insertTime + ttl, and
\* not found at every clock value strictly beyond it, swept or not.
C5_ExpiredAfterDeadline ==
    \A k \in Keys :
        /\ k \in DOMAIN items /\ items[k].Expiration > 0 =>
              GetBody(items, k, now) =
                  IF now <= items[k].Expiration
                  THEN [Object |-> items[k].Object, found |-> TRUE]
                  ELSE [Object |-> Nil, found |-> FALSE]
        /\ k \notin DOMAIN items => ~GetBody(items, k, now).found

\* C5 witness: a Get has returned not-found for an entry that is still stored
\* (not swept) and whose deadline has passed.
C5_Witness ==
    /\ ret["c1"].op = "Get" /\ ret["c1"].err = "notfound"
    /\ ret["c1"].k \in DOMAIN items
    /\ items[ret["c1"].k].Expiration > 0
    /\ items[ret["c1"].k].Expiration < now

\* the expiration the documentation gives a write of duration d at clock t by a
\* cache whose default expiration is de
ClaimExpiry(d, t, de) ==
    IF d > 0 THEN t + d
    ELSE IF d < 0 THEN 0
    ELSE IF de > 0 THEN t + de ELSE 0

\* C6: Set is an unconditional upsert, and Set, Add and Replace store the
\* expiration now + ttl for ttl > 0, 'never' (0) for ttl < 0, and for ttl = 0
\* the cache's default: now + default when that is positive, 'never' when the
\* cache was built with a zero or negative default.
C6_ExpirationResolution ==
    /\ [](/\ \A de \in DefaultDurations :
               newCache(de) = IF de > 0 THEN de ELSE NoExpiration
          /\ defaultExpiration \in {newCache(de) : de \in DefaultDurations}
          /\ \A k \in Keys, x \in Objects, d \in Durations :
               LET a == AddBody(items, k, x, d, now)
                   r == ReplaceBody(items, k, x, d, now)
               IN  /\ a.err = "nil" =>
                        a.items[k].Expiration = ClaimExpiry(d, now, defaultExpiration)
                   /\ r.err = "nil" =>
                        r.items[k].Expiration = ClaimExpiry(d, now, defaultExpiration))
    /\ [][\A t \in Callers :
            /\ pc[t] = "idle" /\ pc'[t] = "Set" =>
                  loc'[t].e = ClaimExpiry(loc'[t].d, now, defaultExpiration)
            /\ Set(t) =>
                  /\ loc[t].k \in DOMAIN items'
                  /\ items'[loc[t].k] = Item(loc[t].x, loc[t].e)
                  /\ SameExcept(items, items', loc[t].k)]_vars

\* C6 witness: on a cache built with a positive default, a Set has just stored
\* an entry whose deadline is now + the default (a write with DefaultExpiration).
C6_Witness ==
    /\ defaultExpiration > 0
    /\ ret["c1"].op = "Set"
    /\ ret["c1"].k \in DOMAIN items
    /\ items[ret["c1"].k].Expiration = now + defaultExpiration

\* r is the Go int sum of a and b: a + b reduced into the range of int
GoSum(r, a, b) ==
    /\ r \in Ints
    /\ (r - (a + b)) % (2 ^ IntBits) = 0
    /\ (a + b \in Ints => r = a + b)

C8_IncrementFailures ==
    \A k \in Keys, n \in Deltas :
        LET r == IncrementBody(items, k, n, now)
        IN  /\ ~LiveKey(items, k, now) =>
                  r.err = "KeyNotFound" /\ r.items = items
            /\ (LiveKey(items, k, now) /\ items[k].Object.kind # "int") =>
                  r.err = "UnsupportedType" /\ r.items = items

\* C8 witness: an Increment has failed with KeyNotFound on an expired entry
\* that is still stored.
C8_Witness ==
    /\ ret["c1"].op = "Increment" /\ ret["c1"].err = "KeyNotFound"
    /\ ret["c1"].k \in DOMAIN items
    /\ ~Live(items[ret["c1"].k], now)

\* C9: with a callback configured, Delete(k) on a stored key removes the entry
\* and invokes the callback exactly once, with k and the value stored just
\* before; on an absent key it invokes it zero times and leaves the store
\* unchanged.  After Delete(k), Get(k) is not found while k is not stored.
C9_DeleteEvictsOnce ==
    /\ [](/\ \A k \in Keys : k \notin DOMAIN items => ~GetBody(items, k, now).found
          /\ \A t \in Callers :
               (pc[t] = "idle" /\ ret[t].op = "Delete") =>
                  \/ calls[t] = <<>>
                  \/ Len(calls[t]) = 1 /\ calls[t][1].key = ret[t].k)
    /\ [][\A t \in Callers :
            /\ \A k \in Keys :
                 (onEvicted /\ Delete(t, k)) =>
                    /\ items' = Remove(items, k)
                    /\ calls'[t] = <<>>
                    /\ IF k \in DOMAIN items
                       THEN /\ pc'[t] = "Delete_cb"
                            /\ loc'[t].k = k /\ loc'[t].x = items[k].Object
                       ELSE /\ pc'[t] = "idle" /\ ret'[t].err = "nil"
                            /\ items' = items
            /\ pc[t] = "Delete_cb" =>
                 \/ UNCHANGED <<pc[t], loc[t], calls[t]>>
                 \/ /\ pc'[t] = "idle" /\ ret'[t].op = "Delete" /\ ret'[t].err = "nil"
                    /\ calls'[t] = <<[key |-> loc[t].k, value |-> loc[t].x]>>
            /\ (calls'[t] # calls[t] /\ calls'[t] # <<>>) =>
                 pc[t] \in {"Delete_cb", "DeleteExpired_cb"}]_vars

\* C9 witness: a Delete of a stored key has returned after one callback.
C9_Witness ==
    /\ onEvicted
    /\ pc["c1"] = "idle" /\ ret["c1"].op = "Delete"
    /\ Len(calls["c1"]) = 1
    /\ calls["c1"][1].key = ret["c1"].k
    /\ calls["c1"][1].value = IntObj(-1)

\* C10: the callback is invoked only by Delete and DeleteExpired: Flush empties
\* the store (ItemCount 0) without a single callback, and Set, Add, Replace and
\* Increment return without having invoked it.
C10_NoCallbackOnFlushOrOverwrite ==
    /\ [](\A t \in Callers :
            (pc[t] = "Set" \/ ret[t].op \in {"Set", "Add", "Replace", "Increment", "Flush"})
                => calls[t] = <<>>)
    /\ [][\A t \in Callers :
            /\ Flush(t) =>
                 /\ Cardinality(DOMAIN items') = 0
                 /\ calls'[t] = <<>>
                 /\ pc'[t] = "idle"
            /\ (calls'[t] # calls[t] /\ calls'[t] # <<>>) =>
                 pc[t] \in {"Delete_cb", "DeleteExpired_cb"}]_vars

\* C10 witness: with a callback configured, a Flush that dropped two entries has
\* returned, the store is empty and no callback was invoked.
C10_Witness ==
    /\ onEvicted
    /\ ret["c1"].op = "Flush" /\ ret["c1"].v = IntObj(2)
    /\ items = << >>
    /\ calls["c1"] = <<>>

\* the set of the elements of the sequence q
Range(q) == {q[i] : i \in 1..Len(q)}

\* C11: DeleteExpired judges every stored entry against the one clock value it
\* read on entry (loc.e).  Its critical section removes exactly the entries
\* whose expiration lies before that value and leaves every other entry, live
\* or never-expiring, as it was; with nothing expired the store is unchanged
\* and the sweep returns without a callback.  With onEvicted set, the removed
\* (key, value) pairs are handed to the callback once each, one per step,
\* only after the removal, and no other invocation is made.
C11_SweepRemovesExactlyExpired ==
    [][\A t \in Callers :
         /\ (pc[t] = "DeleteExpired" /\ pc'[t] # "DeleteExpired") =>
              LET gone == {k \in DOMAIN items : ~Live(items[k], loc[t].e)}
                  pairs == {[key |-> k, value |-> items[k].Object] : k \in gone}
              IN  /\ DOMAIN items' = DOMAIN items \ gone
                  /\ \A k \in DOMAIN items' : items'[k] = items[k]
                  /\ calls'[t] = <<>>
                  /\ (gone = {} \/ ~onEvicted) =>
                        /\ pc'[t] = "idle"
                        /\ ret'[t].op = "DeleteExpired"
                  /\ (gone # {} /\ onEvicted) =>
                        /\ pc'[t] = "DeleteExpired_cb"
                        /\ Len(loc'[t].ev) = Cardinality(gone)
                        /\ Range(loc'[t].ev) = pairs
         /\ (pc[t] = "DeleteExpired_cb" /\ <<pc[t], loc[t]>> # <<pc'[t], loc'[t]>>) =>
              /\ items' = items
              /\ \A i \in 1..Len(loc[t].ev) : loc[t].ev[i].key \notin DOMAIN items
              /\ calls'[t] = Append(calls[t], Head(loc[t].ev))
              /\ calls'[t] \o loc'[t].ev = calls[t] \o loc[t].ev
              /\ pc'[t] = IF loc'[t].ev = <<>> THEN "idle" ELSE "DeleteExpired_cb"
      ]_vars

\* a sweep has returned after removing one expired entry and reporting it,
\* and an entry it had no reason to remove is still stored
C11_Witness ==
    /\ onEvicted
    /\ ret["c1"].op = "DeleteExpired"
    /\ Len(calls["c1"]) = 1
    /\ DOMAIN items # {}

\* C12: ItemCount returns the number of entries physically stored, whether or
\* not their expiration has passed, and changes nothing; and the number of
\* stored entries goes down only in the critical section of a Delete, a
\* DeleteExpired or a Flush.
C12_ItemCountCountsStored ==
    [][\A t \in Callers :
         /\ (pc[t] = "idle" /\ ret'[t] # ret[t] /\ ret'[t].op = "ItemCount") =>
              /\ ret'[t].v = IntObj(Cardinality(DOMAIN items))
              /\ items' = items
         /\ Cardinality(DOMAIN items') < Cardinality(DOMAIN items) =>
              \/ pc[t] = "DeleteExpired" /\ pc'[t] # "DeleteExpired"
              \/ pc[t] = "idle" /\ pc'[t] = "Delete_cb"
              \/ pc[t] = "idle" /\ ret'[t].op \in {"Delete", "Flush"}
      ]_vars

\* ItemCount has returned 2 while both entries are past their expiration, so
\* Get finds neither key
C12_Witness ==
    /\ ret["c1"].op = "ItemCount"
    /\ ret["c1"].v = IntObj(2)
    /\ \A k \in DOMAIN items : items[k].Expiration > 0 /\ Expired(items[k], now)
    /\ \A k \in Keys : ~GetBody(items, k, now).found

\* C17: Get observes the most recent successful write.  The Object stored
\* under k is what the last successful Set, Add, Replace or Increment of k
\* wrote; while that entry is stored and its deadline has not passed, Get(k)
\* returns that Object and found, and for a key that is not stored (never
\* written, or removed by Delete, DeleteExpired or Flush) Get(k) returns nil
\* and not found.
C17_GetObservesLastWrite ==
    \A k \in Keys :
        /\ LiveKey(items, k, now) =>
              GetBody(items, k, now) = [Object |-> items[k].Object, found |-> TRUE]
        /\ k \notin DOMAIN items =>
              GetBody(items, k, now) = [Object |-> Nil, found |-> FALSE]

\* C18: every operation decides liveness the same way.  For every stored key,
\* at the current clock value: Get finds it, exactly when Add would fail with
\* KeyExists, exactly when Replace would succeed, exactly when Increment
\* would not fail with KeyNotFound, exactly when a DeleteExpired reading the
\* clock now would leave it; and for a key that is not stored Get, Add,
\* Replace and Increment all treat it as not live.
C18_OneLivenessPredicate ==
    \A k \in Keys :
        LET found == GetBody(items, k, now).found
            x == Str(0)
        IN  /\ found <=> (AddBody(items, k, x, NoExpiration, now).err = "KeyExists")
            /\ found <=> (ReplaceBody(items, k, x, NoExpiration, now).err = "nil")
            /\ found <=> (IncrementBody(items, k, 1, now).err # "KeyNotFound")
            /\ k \in DOMAIN items => (found <=> k \notin SweepKeys(items, now))

\* C19: the cache is the exclusive owner of its map: no operation returns a
\* reference to c.items to its caller, so that the map is read and written
\* only inside the critical sections.
C19_NoReferenceEscapes ==
    \A t \in Threads : ret[t].v # MapRef

\* C13: onEvicted is never invoked while the storage lock is held.  Whenever
\* a thread is about to invoke the callback (after Delete's removal, or for
\* one of the entries a sweep removed), that thread does not hold mu, and mu
\* is free or held by a thread inside a critical section, which will release
\* it: an operation the callback makes on the cache can take the lock.
C13_CallbackOutsideLock ==
    \A t \in Threads :
        pc[t] \in {"Delete_cb", "DeleteExpired_cb"} =>
            /\ mu # t
            /\ mu = Free \/ pc[mu] # "idle"

\* C15: a stop signal sent at any moment after New has returned is received:
\* the sender is never left in a send that cannot complete, that is, it
\* never sends on a janitor.stop that no goroutine receives from; and once
\* the janitor has stopped the send has completed and the janitor is not
\* inside a sweep.
C15_StopSignalReceived ==
    /\ janitor.sender # "nil"
    /\ janitor.state = "stopped" =>
          /\ janitor.sender = "done"
          /\ pc[Jan] = "idle"

\* C20: whatever the caller's Set, Add, Replace and Delete do around it, also
\* between the sweep's reading of the clock and its taking the lock, the
\* critical section of a sweep removes only entries whose deadline has
\* passed at the moment of the removal, leaves every other entry as it is,
\* and queues for the callback only (key, value) pairs of entries it has
\* just removed itself, each once; the callback is then invoked with the
\* queued pairs, in order, and with nothing else.
C20_SweepUnderInterleaving ==
    [][\A t \in Threads :
         /\ (pc[t] = "DeleteExpired" /\ pc'[t] # "DeleteExpired") =>
              LET gone == DOMAIN items \ DOMAIN items'
              IN  /\ \A k \in gone : ~Live(items[k], now)
                  /\ \A k \in DOMAIN items' : k \in DOMAIN items /\ items'[k] = items[k]
                  /\ Range(loc'[t].ev) \subseteq
                        {[key |-> k, value |-> items[k].Object] : k \in gone}
                  /\ Cardinality(Range(loc'[t].ev)) = Len(loc'[t].ev)
                  /\ calls'[t] = <<>>
         /\ (pc[t] = "DeleteExpired_cb" /\ <<pc[t], loc[t]>> # <<pc'[t], loc'[t]>>) =>
              /\ calls'[t] = Append(calls[t], Head(loc[t].ev))
              /\ loc'[t].ev = Tail(loc[t].ev)
      ]_vars

\* the janitor's sweep has removed a key and has its callback still to make
\* while the caller, having read the clock, is about to store that key again
C20_Witness ==
    /\ pc[Jan] = "DeleteExpired_cb"
    /\ pc["c1"] = "Set"
    /\ loc["c1"].k = Head(loc[Jan].ev).key

\* C16: the janitor exists exactly when New was given a positive
\* cleanupInterval.  Without it an entry leaves the store only through the
\* caller's Delete (or DeleteExpired or Flush), however long its expiration
\* has passed.  With it, and until it is stopped, every tick runs
\* DeleteExpired, so whenever a stored entry's expiration has passed, that
\* entry is eventually removed (or overwritten by a later write).
C16_JanitorSweepsExpired ==
    /\ [](janitor.state # "none" <=> janitor.Interval > 0)
    /\ [][janitor.state = "none" =>
            \A k \in DOMAIN items \ DOMAIN items' :
                \E t \in Callers :
                    /\ pc[t] = "idle"
                    /\ pc'[t] = "Delete_cb" \/ ret'[t].op = "Delete"]_vars
    /\ \A k \in Keys :
          (/\ janitor.state \in {"spawned", "running"}
           /\ k \in DOMAIN items
           /\ Expired(items[k], now))
          ~> (\/ k \notin DOMAIN items
              \/ ~Expired(items[k], now)
              \/ janitor.state = "stopped")

\* C14: Add's check and write are one critical section, so when several
\* callers call Add on the same absent key at once, at most one call
\* succeeds, a call fails with KeyExists only after one has succeeded, the
\* stored entry is then there, and every call that has not returned yet can
\* take the lock and return.
C14_ConcurrentAddOneWinner ==
    LET won == {t \in Adders : ret[t].op = "Add" /\ ret[t].err = "nil"}
        lost == {t \in Adders : ret[t].op = "Add" /\ ret[t].err = "KeyExists"}
    IN  /\ Cardinality(won) <= 1
        /\ lost # {} => won # {}
        /\ won # {} => "foo" \in DOMAIN items
        /\ \A t \in Adders \ (won \cup lost) : ENABLED AddOnce(t)
====
